---------------------------- MODULE Spec2Model ----------------------------
(***************************************************************************)
(* The close wizard of app_web/main.py: the per-user session map           *)
(* _PENDING_CLOSE, the outcome-enumeration cache _FACT_ENUM_LIST, the      *)
(* handlers that aiogram dispatches for one inbound update each, and the   *)
(* Bitrix record those handlers read and update.                           *)
(*                                                                         *)
(* A handler is a coroutine: the code between two awaits runs atomically   *)
(* on the event loop, and any other handler may run while one is           *)
(* suspended on an await.  Every action below is one such atomic stretch   *)
(* of one handler; pc names the await the handler is suspended on.         *)
(*                                                                         *)
(* Strings whose content the code inspects or builds (labels, reasons,     *)
(* comments) are sequences of tokens; identifiers that are only compared   *)
(* are TLA+ strings.                                                       *)
(***************************************************************************)
EXTENDS Integers, Sequences, FiniteSets, TLC

\* ------------------------------------------------------------------ bounds
MaxInFlight == 2      \* handlers that may be suspended at the same time
MaxDispatch == 4      \* inbound updates fed to the dispatcher in one run
MaxGetters == 2       \* cache getters that may be suspended at the same time
MaxItems == 3         \* items of the list the backend serves
MaxPage == 2          \* the backend's page size, and the page_size asked for

\* ------------------------------------------------------------------ inputs
Users == {1, 2}                     \* Telegram user ids
Senders == {1}                      \* the users whose updates arrive
None == "None"                      \* Python's None
DealIds == {"42", "43"}             \* record ids named by callback data
FactInputs == {"7", "8"}           \* outcome ids named by callback data
PageInputs == {"-1", "x"}      \* page field of "factpage:<deal>:<page>"
TextInputs == {<<>>, <<" ", "wet", " ">>}   \* m.text of a reason message
BrigadeInputs == {3, 9}             \* "setbrig:<n>"

\* ----------------------------------------------------------- the backend
\* What crm.deal.userfield.list may serve for UF_CRM_1602766787968 (it can
\* change between two fetches: in RawField2 option 7 is gone and option 8
\* has a label).  An ID of None or "" and a VALUE of None or "" are what
\* get_fact_enum_list tests for; a VALUE of <<>> stands for both None and "".
RawField1 ==
    [served |-> TRUE,
     LIST |-> << [ID |-> "7", VALUE |-> <<"Fixed onsite">>],
                 [ID |-> None, VALUE |-> <<"ghost">>],
                 [ID |-> "8", VALUE |-> <<>>] >>]
RawField2 ==
    [served |-> TRUE,
     LIST |-> << [ID |-> "8", VALUE |-> <<"R", "&", "D">>] >>]
RawFieldAbsent == [served |-> FALSE, LIST |-> <<>>]
RawFields == {RawField1, RawField2, RawFieldAbsent}

\* The deals of the portal when the process starts; an id outside the
\* domain is a deal crm.deal.get does not find.
InitDeals ==
    [d \in {"42"} |->
        [CATEGORY_ID |-> "20", STAGE_ID |-> <<"C", "20", ":UC_204CP3">>,
         COMMENTS |-> <<"[p]", "old", "[/p]">>,
         UF_CRM_1602766787968 |-> None, UF_CRM_1702456465911 |-> <<>>,
         UF_CRM_1611995532420 |-> <<>>]]

VARIABLES
    PENDING_CLOSE,    \* _PENDING_CLOSE: a dict, user id -> session dict
    FACT_ENUM_LIST,   \* _FACT_ENUM_LIST: NotLoaded, or Loaded(list of <<id, name>>)
    AUTH_USERS,       \* the keys of _AUTH_USERS
    USER_BRIGADE,     \* _USER_BRIGADE: a dict, user id -> brigade
    deals,            \* the backend's deals: a dict, id -> fields
    handlers,         \* slot -> the coroutine suspended in it
    last,             \* the handler that ended most recently, as it ended
    dispatched,       \* updates fed to the dispatcher so far
    DEAL_TYPE_MAP,    \* _DEAL_TYPE_MAP: NotLoaded, or Loaded(map)
    ROUTER_ENUM_MAP,  \* _ROUTER_ENUM_MAP
    TARIFF_ENUM_MAP,  \* _TARIFF_ENUM_MAP
    getters,          \* slot -> the cache getter suspended in it
    got,              \* the cache getter that returned most recently
    portal,           \* the list the backend serves and its page size
    call,             \* b24: the HTTP exchange of the logical call under way
    fetch,            \* b24_list: its locals and where it is
    report,           \* build_full_report: the loop over one team's deals
    kb,               \* _facts_page_kb: its arguments and the keyboard it built
    conn,             \* repo.connect: the attempts of one call
    runs              \* _finalize_close: the inputs and payloads of two commits

\* The close wizard's state, the caches next to _FACT_ENUM_LIST, the API
\* client's state.
wizardVars == <<PENDING_CLOSE, AUTH_USERS, USER_BRIGADE, deals, handlers, last,
                dispatched>>
cacheVars == <<DEAL_TYPE_MAP, ROUTER_ENUM_MAP, TARIFF_ENUM_MAP, getters, got>>
clientVars == <<portal, call, fetch, report>>

\* The functions and helpers that are looked at on their own.
libVars == <<kb, conn, runs>>

\* What no handler of the wizard touches.
elsewhere == <<cacheVars, clientVars, libVars>>

vars == <<wizardVars, FACT_ENUM_LIST, cacheVars, clientVars, libVars>>

Slots == 1..MaxInFlight

\* Optional[List]: Python's None and a list.
NotLoaded == [loaded |-> FALSE, list |-> <<>>]
Loaded(lst) == [loaded |-> TRUE, list |-> lst]

\* dict operations
DictPut(d, k, v) == [x \in DOMAIN d \cup {k} |-> IF x = k THEN v ELSE d[x]]
DictPop(d, k) == [x \in DOMAIN d \ {k} |-> d[x]]
EmptyDict == [x \in {} |-> None]

\* ------------------------------------------------------- text as tokens
RECURSIVE DropWhileWs(_)
IsWs(t) == t \in {" ", "\n"}
DropWhileWs(s) ==
    IF s # <<>> /\ IsWs(Head(s)) THEN DropWhileWs(Tail(s)) ELSE s

RECURSIVE DropTrailingWs(_)
DropTrailingWs(s) ==
    IF s # <<>> /\ IsWs(s[Len(s)]) THEN DropTrailingWs(SubSeq(s, 1, Len(s) - 1))
    ELSE s

\* str.strip()
Strip(s) == DropTrailingWs(DropWhileWs(s))

IsBBTag(t) == t \in {"[p]", "[/p]", "[P]", "[/P]"}
NotBBTag(t) == ~IsBBTag(t)

\* _strip_bb: drops every [p] and [/p] tag (any case), then strips.
StripBB(text) ==
    IF text = <<>> THEN <<>>
    ELSE Strip(SelectSeq(text, NotBBTag))

\* html.escape on one token.
EscapeToken(t) ==
    CASE t = "&" -> "&amp;"
      [] t = "<" -> "&lt;"
      [] t = ">" -> "&gt;"
      [] OTHER -> t
HtmlEscape(s) == [i \in 1..Len(s) |-> EscapeToken(s[i])]

\* int(page_s), 0 when it does not parse.
ParsePage(page_s) ==
    CASE page_s = "-1" -> -1
      [] page_s = "0" -> 0
      [] page_s = "1" -> 1
      [] page_s = "2" -> 2
      [] OTHER -> 0


\* ------------------------------------------------------------- handlers
\* One coroutine: the handler, its arguments and locals, the await it is
\* suspended on (pc) and the chat messages it has sent.  cancelled and raced
\* are history: a cb_close_cancel of the same user ran its body while this
\* handler was in flight (for a commit handler: after it read the session);
\* another handler wrote or popped the user's _PENDING_CLOSE entry after
\* this handler read it.  wrote is history too: the backend has applied this
\* handler's crm.deal.update.
NoFields == [x \in {} |-> None]
Blank ==
    [kind |-> "-", uid |-> 0, pc |-> "free", deal_id |-> "-", page |-> 0,
     fact_val |-> "-", fact_name |-> <<>>, reason_text |-> <<>>,
     ctx_stage |-> "-", fields |-> NoFields, msgs |-> {}, contact_uid |-> 0,
     cancelled |-> FALSE, raced |-> FALSE, wrote |-> FALSE]

Idle(h) == handlers[h].pc = "free"
InFlight(r) == r.pc # "free"

\* The awaits between a commit handler's read of ctx and its final pop.
CommitPcs == {"fin_get", "fin_upd", "get2", "card", "errmsg"}

\* History: handler self executes a write or a pop of _PENDING_CLOSE[u].
Touch(hs, u, self) ==
    [k \in Slots |->
        IF k # self /\ hs[k].uid = u /\ hs[k].pc \in CommitPcs
        THEN [hs[k] EXCEPT !.raced = TRUE] ELSE hs[k]]

\* History: handler self is a cb_close_cancel of u running its body.
CancelMark(hs, u, self) ==
    [k \in Slots |->
        IF k # self /\ hs[k].uid = u /\ InFlight(hs[k])
        THEN [hs[k] EXCEPT !.cancelled = TRUE] ELSE hs[k]]

\* A handler as it ended: it returned ("done"), its exception reached the
\* dispatcher ("raised"), or require_auth did not run it ("denied").
Ended(r, pc, sent) ==
    [Blank EXCEPT !.kind = r.kind, !.uid = r.uid, !.pc = pc,
                  !.deal_id = r.deal_id, !.fact_val = r.fact_val,
                  !.ctx_stage = r.ctx_stage, !.msgs = r.msgs \cup sent]

\* Handler h ends: its slot is free again.
Finish(h, pc, sent) ==
    /\ last' = Ended(handlers[h], pc, sent)
    /\ handlers' = [handlers EXCEPT ![h] = Blank]

\* Handler h ends after a write or a pop of _PENDING_CLOSE[u].
FinishTouch(h, pc, sent) ==
    /\ last' = Ended(handlers[h], pc, sent)
    /\ handlers' = Touch([handlers EXCEPT ![h] = Blank], handlers[h].uid, h)

\* A gate that lets every sender through.
is_authed_Anyone(u) == u \in Users

\* is_authed
is_authed(u) == u \in AUTH_USERS

\* dp.feed_update: one inbound update starts one handler in a free slot.
\* require_auth runs the handler for an authenticated user; anyone else gets
\* the prompt, at most once in 30 s per chat (time is not modelled: the
\* prompt is sent or suppressed), and the handler does not run.
feed_update(h, r) ==
    /\ Idle(h)
    /\ dispatched < MaxDispatch
    /\ dispatched' = dispatched + 1
    /\ IF is_authed(r.uid)
       THEN handlers' = [handlers EXCEPT ![h] = r] /\ UNCHANGED last
       ELSE /\ \E prompt \in BOOLEAN :
                 last' = Ended(r, "denied", IF prompt THEN {"auth_prompt"} ELSE {})
            /\ UNCHANGED handlers
    /\ UNCHANGED <<PENDING_CLOSE, FACT_ENUM_LIST, AUTH_USERS, USER_BRIGADE, deals>>
    /\ UNCHANGED elsewhere

\* ------------------------------------------------------ get_fact_enum_list
OptId(o) == IF o.ID = None THEN "" ELSE o.ID
KeepsOption(o) == OptId(o) # ""

\* The list built from the served field: every option with a non-empty ID,
\* in served order, as <<id, name>>.
FactEnumFrom(raw) ==
    IF raw.served
    THEN LET kept == SelectSeq(raw.LIST, KeepsOption)
         IN [i \in 1..Len(kept) |-> <<OptId(kept[i]), kept[i].VALUE>>]
    ELSE <<>>

\* The lookup as render_deal_card does it for the deal type (line 183): the
\* id itself stands in for the label of an id the list does not hold.
RECURSIVE FactNameOf_Fallback(_, _)
FactNameOf_Fallback(facts, fact_val) ==
    IF facts = <<>> THEN <<fact_val>>
    ELSE IF Head(facts)[1] = fact_val THEN Head(facts)[2]
    ELSE FactNameOf_Fallback(Tail(facts), fact_val)

\* next((n for v, n in facts if v == fact_val), "")
RECURSIVE FactNameOf(_, _)
FactNameOf(facts, fact_val) ==
    IF facts = <<>> THEN <<>>
    ELSE IF Head(facts)[1] = fact_val THEN Head(facts)[2]
    ELSE FactNameOf(Tail(facts), fact_val)

\* b24 raises (an error answer, a network failure, a timeout) outside any
\* try: the exception leaves the handler and reaches the dispatcher.
Raise(h) == Finish(h, "raised", {})

\* get_fact_enum_list up to its await: a loaded cache is returned as it is,
\* an empty one suspends the handler on crm.deal.userfield.list.
AwaitEnum(h) ==
    /\ ~FACT_ENUM_LIST.loaded
    /\ handlers' = [handlers EXCEPT ![h].pc = "enum"]
    /\ UNCHANGED <<PENDING_CLOSE, FACT_ENUM_LIST, last>>

\* ----------------------------------------------------- cb_close_deal_start
feed_close(h, u, d) ==
    feed_update(h, [Blank EXCEPT !.kind = "close", !.uid = u, !.pc = "answer",
                                 !.deal_id = d])

\* A Start that resumes: the page of a pending session is kept.
StartWrite_Resume(h) ==
    LET r == handlers[h]
        page == IF r.uid \in DOMAIN PENDING_CLOSE /\ "page" \in DOMAIN PENDING_CLOSE[r.uid]
                THEN PENDING_CLOSE[r.uid].page ELSE 0
    IN
    /\ PENDING_CLOSE' = DictPut(PENDING_CLOSE, r.uid,
                          [deal_id |-> r.deal_id, stage |-> "pick_fact", page |-> page])
    /\ FinishTouch(h, "done", {"menu"})

\* _PENDING_CLOSE[uid] = {deal_id, "pick_fact", 0}, then the menu is sent.
StartWrite(h) ==
    LET r == handlers[h] IN
    /\ PENDING_CLOSE' = DictPut(PENDING_CLOSE, r.uid,
                          [deal_id |-> r.deal_id, stage |-> "pick_fact", page |-> 0])
    /\ FinishTouch(h, "done", {"menu"})

cb_close_deal_start(h) ==
    /\ handlers[h].kind = "close" /\ handlers[h].pc = "answer"
    /\ \/ FACT_ENUM_LIST.loaded /\ StartWrite(h) /\ UNCHANGED FACT_ENUM_LIST
       \/ AwaitEnum(h)
    /\ UNCHANGED <<AUTH_USERS, USER_BRIGADE, deals, dispatched>>
    /\ UNCHANGED elsewhere

cb_close_deal_start_enum(h) ==
    /\ handlers[h].kind = "close" /\ handlers[h].pc = "enum"
    /\ \/ Raise(h) /\ UNCHANGED <<PENDING_CLOSE, FACT_ENUM_LIST>>
       \/ \E raw \in RawFields :
            /\ FACT_ENUM_LIST' = Loaded(FactEnumFrom(raw))
            /\ StartWrite(h)
    /\ UNCHANGED <<AUTH_USERS, USER_BRIGADE, deals, dispatched>>
    /\ UNCHANGED elsewhere

\* ----------------------------------------------------------- _facts_page_kb
FACTS_PER_PAGE == 8

\* max(1, (len(facts) + _FACTS_PER_PAGE - 1) // _FACTS_PER_PAGE)
total_pages(facts) ==
    LET n == (Len(facts) + FACTS_PER_PAGE - 1) \div FACTS_PER_PAGE
    IN IF n > 1 THEN n ELSE 1

\* page = max(0, min(page, total_pages - 1)): the page the keyboard shows.
ClampPage(page, facts) ==
    LET top == total_pages(facts) - 1
        low == IF page < top THEN page ELSE top
    IN IF low > 0 THEN low ELSE 0

\* ------------------------------------------------------------ cb_fact_page
\* The deal id of "factpage:<deal>:<page>" only goes into the keyboard that
\* is rendered; it is not kept.
feed_factpage(h, u, page_s) ==
    feed_update(h, [Blank EXCEPT !.kind = "factpage", !.uid = u, !.pc = "answer",
                                 !.page = ParsePage(page_s)])

\* The keyboard of the page is built and edit_reply_markup awaited.
FactPageEdit(h) ==
    /\ handlers' = [handlers EXCEPT ![h].pc = "edit"]
    /\ UNCHANGED <<PENDING_CLOSE, last>>

cb_fact_page(h) ==
    /\ handlers[h].kind = "factpage" /\ handlers[h].pc = "answer"
    /\ \/ FACT_ENUM_LIST.loaded /\ FactPageEdit(h) /\ UNCHANGED FACT_ENUM_LIST
       \/ AwaitEnum(h)
    /\ UNCHANGED <<AUTH_USERS, USER_BRIGADE, deals, dispatched>>
    /\ UNCHANGED elsewhere

cb_fact_page_enum(h) ==
    /\ handlers[h].kind = "factpage" /\ handlers[h].pc = "enum"
    /\ \/ Raise(h) /\ UNCHANGED <<PENDING_CLOSE, FACT_ENUM_LIST>>
       \/ \E raw \in RawFields :
            /\ FACT_ENUM_LIST' = Loaded(FactEnumFrom(raw))
            /\ FactPageEdit(h)
    /\ UNCHANGED <<AUTH_USERS, USER_BRIGADE, deals, dispatched>>
    /\ UNCHANGED elsewhere

\* ctx = _PENDING_CLOSE.get(uid); if ctx: ctx["page"] = page
StorePage(h) ==
    LET r == handlers[h] IN
    IF r.uid \in DOMAIN PENDING_CLOSE
    THEN /\ PENDING_CLOSE' = [PENDING_CLOSE EXCEPT
                                ![r.uid] = DictPut(@, "page", r.page)]
         /\ FinishTouch(h, "done", {"menu_edited"})
    ELSE /\ Finish(h, "done", {"menu_edited"})
         /\ UNCHANGED PENDING_CLOSE

cb_fact_page_edited(h) ==
    /\ handlers[h].kind = "factpage" /\ handlers[h].pc = "edit"
    /\ StorePage(h)
    /\ UNCHANGED <<FACT_ENUM_LIST, AUTH_USERS, USER_BRIGADE, deals, dispatched>>
    /\ UNCHANGED elsewhere

\* ---------------------------------------------------------- cb_fact_select
feed_factsel(h, u, d, f) ==
    feed_update(h, [Blank EXCEPT !.kind = "factsel", !.uid = u, !.pc = "answer",
                                 !.deal_id = d, !.fact_val = f])

\* A failed select that returns without a message.
SelectFailed_Silent(h) ==
    /\ Finish(h, "done", {})
    /\ UNCHANGED PENDING_CLOSE

\* A failed select that pops the session: the wizard is aborted.
SelectFailed_Abort(h) ==
    /\ PENDING_CLOSE' = DictPop(PENDING_CLOSE, handlers[h].uid)
    /\ FinishTouch(h, "done", {"select_failed"})

\* if not fact_name: the failure message, and return.
SelectFailed(h) ==
    /\ Finish(h, "done", {"select_failed"})
    /\ UNCHANGED PENDING_CLOSE

\* _PENDING_CLOSE[uid] = {deal_id, "await_reason", fact_val, fact_name}, then
\* the prompt for the reason is sent.
SelectWrite(h, fact_name) ==
    LET r == handlers[h] IN
    /\ PENDING_CLOSE' = DictPut(PENDING_CLOSE, r.uid,
                          [deal_id |-> r.deal_id, stage |-> "await_reason",
                           fact_val |-> r.fact_val, fact_name |-> fact_name])
    /\ FinishTouch(h, "done", {"reason_prompt"})

SelectOutcome(h, facts) ==
    LET fact_name == FactNameOf(facts, handlers[h].fact_val) IN
    IF fact_name = <<>> THEN SelectFailed(h) ELSE SelectWrite(h, fact_name)

cb_fact_select(h) ==
    /\ handlers[h].kind = "factsel" /\ handlers[h].pc = "answer"
    /\ \/ /\ FACT_ENUM_LIST.loaded
          /\ SelectOutcome(h, FACT_ENUM_LIST.list)
          /\ UNCHANGED FACT_ENUM_LIST
       \/ AwaitEnum(h)
    /\ UNCHANGED <<AUTH_USERS, USER_BRIGADE, deals, dispatched>>
    /\ UNCHANGED elsewhere

cb_fact_select_enum(h) ==
    /\ handlers[h].kind = "factsel" /\ handlers[h].pc = "enum"
    /\ \/ Raise(h) /\ UNCHANGED <<PENDING_CLOSE, FACT_ENUM_LIST>>
       \/ \E raw \in RawFields :
            /\ FACT_ENUM_LIST' = Loaded(FactEnumFrom(raw))
            /\ SelectOutcome(h, FactEnumFrom(raw))
    /\ UNCHANGED <<AUTH_USERS, USER_BRIGADE, deals, dispatched>>
    /\ UNCHANGED elsewhere

\* --------------------------------------------------------- _finalize_close
\* _BRIGADE_EXEC_OPTION_ID
BRIGADE_EXEC_OPTION_ID ==
    [b \in {1, 2, 3, 4, 5} |->
        CASE b = 1 -> 5494 [] b = 2 -> 5496 [] b = 3 -> 5498
          [] b = 4 -> 5500 [] b = 5 -> 5502]

\* get_user_brigade; 0 stands for None.
get_user_brigade(u) == IF u \in DOMAIN USER_BRIGADE THEN USER_BRIGADE[u] ELSE 0

\* The audit block: the outcome label, and the reason when there is one.
AuditBlock(fact_name, reason_text) ==
    LET block == <<"[p]", "<b>Closing:</b> ">> \o HtmlEscape(fact_name) \o <<"[/p]">>
    IN IF reason_text # <<>>
       THEN block \o <<"\n", "[p]", "<b>Repair reason:</b> ">>
                  \o HtmlEscape(reason_text) \o <<"[/p]">>
       ELSE block

\* The fields without the executor: the crew of the user is not looked up.
CloseFields_NoCrew(deal, user_id, fact_val, fact_name, reason_text) ==
    LET category == IF deal.CATEGORY_ID \in {None, ""} THEN "0" ELSE deal.CATEGORY_ID
        prev_comments == StripBB(deal.COMMENTS)
        block == AuditBlock(fact_name, reason_text)
    IN [STAGE_ID |-> <<"C", category, ":WON">>,
        COMMENTS |-> IF prev_comments = <<>> THEN block
                     ELSE prev_comments \o <<"\n", "\n">> \o block,
        UF_CRM_1602766787968 |-> fact_val,
        UF_CRM_1702456465911 |-> reason_text]

\* The fields with the executor named after the user, not after the crew.
CloseFields_ByUser(deal, user_id, fact_val, fact_name, reason_text) ==
    DictPut(CloseFields_NoCrew(deal, user_id, fact_val, fact_name, reason_text),
            "UF_CRM_1611995532420", <<user_id>>)

\* The fields of the crm.deal.update call, from the deal as fetched.
CloseFields(deal, user_id, fact_val, fact_name, reason_text) ==
    LET category == IF deal.CATEGORY_ID \in {None, ""} THEN "0" ELSE deal.CATEGORY_ID
        target_stage == <<"C", category, ":WON">>
        prev_comments == StripBB(deal.COMMENTS)
        block == AuditBlock(fact_name, reason_text)
        new_comments == IF prev_comments = <<>> THEN block
                        ELSE prev_comments \o <<"\n", "\n">> \o block
        brigade == get_user_brigade(user_id)
        base == [STAGE_ID |-> target_stage,
                 COMMENTS |-> new_comments,
                 UF_CRM_1602766787968 |-> fact_val,
                 UF_CRM_1702456465911 |-> reason_text]
    IN IF brigade # 0 /\ brigade \in DOMAIN BRIGADE_EXEC_OPTION_ID
       THEN DictPut(base, "UF_CRM_1611995532420", <<BRIGADE_EXEC_OPTION_ID[brigade]>>)
       ELSE base

\* The backend applies crm.deal.update: the named fields replace the deal's.
ApplyUpdate(deal, fields) ==
    [k \in DOMAIN deal \cup DOMAIN fields |->
        IF k \in DOMAIN fields THEN fields[k] ELSE deal[k]]

\* A call without a timeout, to a backend that does not answer: the handler
\* stays where it is.
CloseFailed_Hang(h) == UNCHANGED <<handlers, last>>

\* except Exception: the failure message is awaited.  The exception is the
\* error of the call, or the TimeoutError that the session's
\* ClientTimeout(total=60) raises when no answer has come.
CloseFailed(h) ==
    /\ handlers' = [handlers EXCEPT ![h].pc = "errmsg", ![h].fields = NoFields]
    /\ UNCHANGED last

\* A deal with nothing in it, as crm.deal.get would answer with {}.
NoDeal ==
    [CATEGORY_ID |-> None, STAGE_ID |-> <<>>, COMMENTS |-> <<>>,
     UF_CRM_1602766787968 |-> None, UF_CRM_1702456465911 |-> <<>>,
     UF_CRM_1611995532420 |-> <<>>]

\* The fetch without `if not deal`: the update is built from whatever came.
finalize_close_get_Unchecked(h) ==
    LET r == handlers[h]
        deal == IF r.deal_id \in DOMAIN deals THEN deals[r.deal_id] ELSE NoDeal
    IN
    /\ r.pc = "fin_get"
    /\ \/ CloseFailed(h)
       \/ /\ handlers' = [handlers EXCEPT
                ![h].pc = "fin_upd",
                ![h].fields = CloseFields(deal, r.uid, r.fact_val,
                                          r.fact_name, r.reason_text)]
          /\ UNCHANGED last
    /\ UNCHANGED <<PENDING_CLOSE, FACT_ENUM_LIST, AUTH_USERS, USER_BRIGADE, deals,
                   dispatched>>
    /\ UNCHANGED elsewhere

\* crm.deal.get answers: an error, no deal, or the deal, from which the
\* fields are built and crm.deal.update is called.
finalize_close_get(h) ==
    LET r == handlers[h] IN
    /\ r.pc = "fin_get"
    /\ \/ CloseFailed(h)
       \/ /\ r.deal_id \notin DOMAIN deals
          /\ CloseFailed(h)
       \/ /\ r.deal_id \in DOMAIN deals
          /\ handlers' = [handlers EXCEPT
                ![h].pc = "fin_upd",
                ![h].fields = CloseFields(deals[r.deal_id], r.uid, r.fact_val,
                                          r.fact_name, r.reason_text)]
          /\ UNCHANGED last
    /\ UNCHANGED <<PENDING_CLOSE, FACT_ENUM_LIST, AUTH_USERS, USER_BRIGADE, deals,
                   dispatched>>
    /\ UNCHANGED elsewhere

\* The backend applied the update, and the handler is in its except branch
\* all the same: the answer did not arrive within the client's timeout, or
\* the confirmation could not be sent.
CloseFailedWritten(h) ==
    /\ handlers' = [handlers EXCEPT ![h].pc = "errmsg", ![h].fields = NoFields,
                                    ![h].wrote = TRUE]
    /\ UNCHANGED last

\* crm.deal.update ends: in an error with nothing written; with the deal
\* written and the call or the confirmation after it failing; or with the
\* deal written, the confirmation sent and the deal fetched again.
finalize_close_update(h) ==
    LET r == handlers[h] IN
    /\ r.pc = "fin_upd"
    /\ \/ CloseFailed(h) /\ UNCHANGED deals
       \/ /\ deals' = [deals EXCEPT ![r.deal_id] = ApplyUpdate(@, r.fields)]
          /\ CloseFailedWritten(h)
       \/ /\ deals' = [deals EXCEPT ![r.deal_id] = ApplyUpdate(@, r.fields)]
          /\ handlers' = [handlers EXCEPT ![h].pc = "get2", ![h].fields = NoFields,
                                          ![h].msgs = @ \cup {"closed"},
                                          ![h].wrote = TRUE]
          /\ UNCHANGED last
    /\ UNCHANGED <<PENDING_CLOSE, FACT_ENUM_LIST, AUTH_USERS, USER_BRIGADE, dispatched>>
    /\ UNCHANGED elsewhere

\* deal2 = await b24("crm.deal.get", id=deal_id)
close_get2(h) ==
    /\ handlers[h].pc = "get2"
    /\ \/ CloseFailed(h)
       \/ handlers' = [handlers EXCEPT ![h].pc = "card"] /\ UNCHANGED last
    /\ UNCHANGED <<PENDING_CLOSE, FACT_ENUM_LIST, AUTH_USERS, USER_BRIGADE, deals,
                   dispatched>>
    /\ UNCHANGED elsewhere

\* finally: _PENDING_CLOSE.pop(uid, None)
FinallyPop(h, sent) ==
    /\ PENDING_CLOSE' = DictPop(PENDING_CLOSE, handlers[h].uid)
    /\ FinishTouch(h, "done", sent)

\* send_deal_card: its backend calls fail, or the card is sent; then finally.
close_card(h) ==
    /\ handlers[h].pc = "card"
    /\ \/ CloseFailed(h) /\ UNCHANGED PENDING_CLOSE
       \/ FinallyPop(h, {"card"})
    /\ UNCHANGED <<FACT_ENUM_LIST, AUTH_USERS, USER_BRIGADE, deals, dispatched>>
    /\ UNCHANGED elsewhere

\* The except branch without the finally: the session stays.
close_failed_sent_NoPop(h) ==
    /\ handlers[h].pc = "errmsg"
    /\ Finish(h, "done", {"close_error"})
    /\ UNCHANGED <<PENDING_CLOSE, FACT_ENUM_LIST, AUTH_USERS, USER_BRIGADE, deals,
                   dispatched>>
    /\ UNCHANGED elsewhere

\* The failure message of the except branch is sent; then finally.
close_failed_sent(h) ==
    /\ handlers[h].pc = "errmsg"
    /\ FinallyPop(h, {"close_error"})
    /\ UNCHANGED <<FACT_ENUM_LIST, AUTH_USERS, USER_BRIGADE, deals, dispatched>>
    /\ UNCHANGED elsewhere

\* ---------------------------------------------------------- cb_reason_skip
feed_reason_skip(h, u) ==
    feed_update(h, [Blank EXCEPT !.kind = "reason_skip", !.uid = u, !.pc = "answer"])

\* dict.get on the session
CtxGet(ctx, k, default) == IF k \in DOMAIN ctx THEN ctx[k] ELSE default

\* not ctx or ctx.get("stage") != "await_reason"
NoActiveClose(u) ==
    \/ u \notin DOMAIN PENDING_CLOSE
    \/ CtxGet(PENDING_CLOSE[u], "stage", None) # "await_reason"

\* The subscripts as ctx.get would read them: a missing key does not raise.
SubscriptsOk_Get(u) == u \in DOMAIN PENDING_CLOSE

\* ctx["deal_id"], ctx["fact_val"], ctx["fact_name"] raise on a missing
\* session (TypeError) or a missing key (KeyError).
SubscriptsOk(u) ==
    /\ u \in DOMAIN PENDING_CLOSE
    /\ {"deal_id", "fact_val", "fact_name"} \subseteq DOMAIN PENDING_CLOSE[u]

\* deal_id, fact_val, fact_name are read from ctx and _finalize_close is
\* called: crm.deal.get is awaited.
BeginFinalize(h, reason) ==
    LET r == handlers[h]
        ctx == PENDING_CLOSE[r.uid]
    IN /\ handlers' = [handlers EXCEPT ![h] =
            [r EXCEPT !.pc = "fin_get",
                      !.ctx_stage = CtxGet(ctx, "stage", None),
                      !.deal_id = CtxGet(ctx, "deal_id", None),
                      !.fact_val = CtxGet(ctx, "fact_val", None),
                      !.fact_name = CtxGet(ctx, "fact_name", <<>>),
                      !.reason_text = reason,
                      !.cancelled = FALSE]]
       /\ UNCHANGED last

cb_reason_skip(h) ==
    LET r == handlers[h] IN
    /\ r.kind = "reason_skip" /\ r.pc = "answer"
    /\ IF NoActiveClose(r.uid)
       THEN Finish(h, "done", {"no_active"})
       ELSE IF SubscriptsOk(r.uid)
       THEN BeginFinalize(h, <<>>)
       ELSE Raise(h)
    /\ UNCHANGED <<PENDING_CLOSE, FACT_ENUM_LIST, AUTH_USERS, USER_BRIGADE, deals,
                   dispatched>>
    /\ UNCHANGED elsewhere

\* ------------------------------------------------------- catch_reason_text
\* The handler's filter, evaluated by the dispatcher before the handler is
\* called: _PENDING_CLOSE.get(uid, {}).get("stage") == "await_reason"
ReasonFilter(u) ==
    /\ u \in DOMAIN PENDING_CLOSE
    /\ CtxGet(PENDING_CLOSE[u], "stage", None) = "await_reason"

feed_reason_text(h, u, text) ==
    /\ ReasonFilter(u)
    /\ feed_update(h, [Blank EXCEPT !.kind = "reason_text", !.uid = u, !.pc = "answer",
                                    !.reason_text = text])

catch_reason_text(h) ==
    LET r == handlers[h] IN
    /\ r.kind = "reason_text" /\ r.pc = "answer"
    /\ IF SubscriptsOk(r.uid)
       THEN BeginFinalize(h, Strip(r.reason_text))
       ELSE Raise(h)
    /\ UNCHANGED <<PENDING_CLOSE, FACT_ENUM_LIST, AUTH_USERS, USER_BRIGADE, deals,
                   dispatched>>
    /\ UNCHANGED elsewhere

\* --------------------------------------------------------- cb_close_cancel
feed_cmtcancel(h, u) ==
    feed_update(h, [Blank EXCEPT !.kind = "cmtcancel", !.uid = u, !.pc = "answer"])

\* _PENDING_CLOSE.pop(uid, None), then "not changed" is sent.
CancelPop(h) ==
    LET r == handlers[h] IN
    /\ PENDING_CLOSE' = DictPop(PENDING_CLOSE, r.uid)
    /\ last' = Ended(r, "done", {"cancelled"})
    /\ handlers' = CancelMark(Touch([handlers EXCEPT ![h] = Blank], r.uid, h), r.uid, h)

cb_close_cancel(h) ==
    /\ handlers[h].kind = "cmtcancel" /\ handlers[h].pc = "answer"
    /\ CancelPop(h)
    /\ UNCHANGED <<FACT_ENUM_LIST, AUTH_USERS, USER_BRIGADE, deals, dispatched>>
    /\ UNCHANGED elsewhere

\* ---------------------------------------------------------- handle_contact
\* The contact of the message: the user id it carries (0: none) and whether
\* it carries a phone number.  The handler is not behind require_auth.
ContactAccepted(u, contact_uid) == ~(contact_uid # 0 /\ contact_uid # u)

feed_contact(h, u, contact_uid, has_phone) ==
    LET r == [Blank EXCEPT !.kind = "contact", !.uid = u, !.contact_uid = contact_uid]
    IN
    /\ Idle(h)
    /\ dispatched < MaxDispatch
    /\ dispatched' = dispatched + 1
    /\ IF ~ContactAccepted(u, contact_uid)
       THEN last' = Ended(r, "done", {"own_contact_please"}) /\ UNCHANGED handlers
       ELSE IF ~has_phone
       THEN last' = Ended(r, "done", {"no_phone"}) /\ UNCHANGED handlers
       ELSE /\ handlers' = [handlers EXCEPT ![h] = [r EXCEPT !.pc = "find"]]
            /\ UNCHANGED last
    /\ UNCHANGED <<PENDING_CLOSE, FACT_ENUM_LIST, AUTH_USERS, USER_BRIGADE, deals>>
    /\ UNCHANGED elsewhere

\* find_bitrix_user_by_phone answers: nobody, or the employee.
handle_contact_found(h) ==
    LET r == handlers[h] IN
    /\ r.kind = "contact" /\ r.pc = "find"
    /\ \/ Finish(h, "done", {"not_found"}) /\ UNCHANGED AUTH_USERS
       \/ /\ AUTH_USERS' = AUTH_USERS \cup {r.uid}
          /\ Finish(h, "done", {"auth_ok"})
    /\ UNCHANGED <<PENDING_CLOSE, FACT_ENUM_LIST, USER_BRIGADE, deals, dispatched>>
    /\ UNCHANGED elsewhere

\* -------------------------------------------------------------- cb_setbrig
feed_setbrig(h, u, b) ==
    feed_update(h, [Blank EXCEPT !.kind = "setbrig", !.uid = u, !.pc = "answer",
                                 !.page = b])

cb_setbrig(h) ==
    LET r == handlers[h] IN
    /\ r.kind = "setbrig" /\ r.pc = "answer"
    /\ IF r.page \in {1, 2, 3, 4, 5}
       THEN /\ USER_BRIGADE' = DictPut(USER_BRIGADE, r.uid, r.page)
            /\ Finish(h, "done", {"brigade_set"})
       ELSE /\ Finish(h, "done", {"brigade_invalid"})
            /\ UNCHANGED USER_BRIGADE
    /\ UNCHANGED <<PENDING_CLOSE, FACT_ENUM_LIST, AUTH_USERS, deals, dispatched>>
    /\ UNCHANGED elsewhere

\* ---------------------------------------------------------- the caches
\* get_deal_type_map, get_router_enum_map, get_tariff_enum_map and
\* get_fact_enum_list on their own: any coroutine may call them.
GetSlots == 1..MaxGetters
CacheFields == {"deal_type", "router", "tariff", "fact"}

\* What crm.status.list may answer for ENTITY_ID = DEAL_TYPE.
StatusLists ==
    { <<[STATUS_ID |-> "SALE", NAME |-> "Sale"],
        [STATUS_ID |-> "SALE", NAME |-> "Connection"]>>,
      <<[STATUS_ID |-> "COMPLEX", NAME |-> "Repair"]>> }

\* {i["STATUS_ID"]: i["NAME"] for i in items}: the last item of an id wins.
DealTypeMapFrom(items) ==
    [id \in {items[i].STATUS_ID : i \in DOMAIN items} |->
        LET at == {i \in DOMAIN items : items[i].STATUS_ID = id}
        IN items[CHOOSE i \in at : \A j \in at : j <= i].NAME]

\* str(o["ID"])
StrId(o) == IF o.ID = None THEN "None" ELSE o.ID

\* _enum_map_for_userfield: {str(o["ID"]): o["VALUE"]} over the field's LIST,
\* {} when the field is not served.
EnumMapFrom(raw) ==
    IF raw.served
    THEN [id \in {StrId(raw.LIST[i]) : i \in DOMAIN raw.LIST} |->
            LET at == {i \in DOMAIN raw.LIST : StrId(raw.LIST[i]) = id}
            IN raw.LIST[CHOOSE i \in at : \A j \in at : j <= i].VALUE]
    ELSE EmptyDict

CacheOf(field) ==
    CASE field = "deal_type" -> DEAL_TYPE_MAP
      [] field = "router" -> ROUTER_ENUM_MAP
      [] field = "tariff" -> TARIFF_ENUM_MAP
      [] field = "fact" -> FACT_ENUM_LIST

\* The values the backend may make a getter of the field store.
ServedFor(field) ==
    CASE field = "deal_type" -> {DealTypeMapFrom(items) : items \in StatusLists}
      [] field \in {"router", "tariff"} -> {EnumMapFrom(raw) : raw \in RawFields}
      [] field = "fact" -> {FactEnumFrom(raw) : raw \in RawFields}

\* global _X; _X = value
StoreCache(field, value) ==
    /\ DEAL_TYPE_MAP' = IF field = "deal_type" THEN Loaded(value) ELSE DEAL_TYPE_MAP
    /\ ROUTER_ENUM_MAP' = IF field = "router" THEN Loaded(value) ELSE ROUTER_ENUM_MAP
    /\ TARIFF_ENUM_MAP' = IF field = "tariff" THEN Loaded(value) ELSE TARIFF_ENUM_MAP
    /\ FACT_ENUM_LIST' = IF field = "fact" THEN Loaded(value) ELSE FACT_ENUM_LIST

caches == <<DEAL_TYPE_MAP, ROUTER_ENUM_MAP, TARIFF_ENUM_MAP, FACT_ENUM_LIST>>

NoGetter == [field |-> "-", pc |-> "free"]
NoGot == [field |-> "-", value |-> <<>>, calls |-> 0, hit |-> FALSE]

\* A getter that tests nothing: every get goes to the backend.
CacheMiss_Always(c) == TRUE

\* if _X is None
CacheMiss(c) == ~c.loaded

\* A getter is called: with the cache empty it awaits the backend; with the
\* cache populated it returns what is stored, at once.
GetEnter(g, field) ==
    /\ IF CacheMiss(CacheOf(field))
       THEN /\ getters' = [getters EXCEPT ![g] = [field |-> field, pc |-> "fetch"]]
            /\ UNCHANGED got
       ELSE /\ got' = [field |-> field, value |-> CacheOf(field).list,
                       calls |-> 0, hit |-> TRUE]
            /\ UNCHANGED getters
    /\ UNCHANGED <<caches, wizardVars, clientVars, libVars>>

get_deal_type_map(g) == getters[g].pc = "free" /\ GetEnter(g, "deal_type")
get_router_enum_map(g) == getters[g].pc = "free" /\ GetEnter(g, "router")
get_tariff_enum_map(g) == getters[g].pc = "free" /\ GetEnter(g, "tariff")
get_fact_enum_list(g) == getters[g].pc = "free" /\ GetEnter(g, "fact")

\* The backend call of a getter ends: b24 raises and nothing is stored, or
\* the value built from the answer is stored, whatever is stored by then,
\* and returned.
get_fetched(g) ==
    LET field == getters[g].field IN
    /\ getters[g].pc = "fetch"
    /\ getters' = [getters EXCEPT ![g] = NoGetter]
    /\ \/ UNCHANGED <<caches, got>>
       \/ \E value \in ServedFor(field) :
            /\ StoreCache(field, value)
            /\ got' = [field |-> field, value |-> value, calls |-> 1, hit |-> FALSE]
    /\ UNCHANGED <<wizardVars, clientVars, libVars>>

CachesInit ==
    /\ DEAL_TYPE_MAP = NotLoaded
    /\ ROUTER_ENUM_MAP = NotLoaded
    /\ TARIFF_ENUM_MAP = NotLoaded
    /\ getters = [g \in GetSlots |-> NoGetter]
    /\ got = NoGot

\* -------------------------------------------------------- b24, b24_list
\* The backend's list is the items 1..N in backend order, served P items a
\* page from the offset asked for; "next" is there while items remain.
Min(a, b) == IF a < b THEN a ELSE b

Portals == [items : 0..MaxItems, page : 1..MaxPage]
PageSizes == 1..MaxPage

ServedPage(start) ==
    LET n == Min(portal.page, IF portal.items > start THEN portal.items - start ELSE 0)
    IN [i \in 1..n |-> start + i]

\* The JSON of a successful answer to a list call at the offset.
ListData(start) ==
    IF start + portal.page < portal.items
    THEN [result |-> ServedPage(start), total |-> portal.items,
          next |-> start + portal.page]
    ELSE [result |-> ServedPage(start), total |-> portal.items]

ErrorData(code) == [error |-> code, error_description |-> "-"]

\* How one HTTP attempt may end: the answer is a result, it is an error of
\* the backend (the rate limit or another), its body is not JSON, or the
\* request fails on the network.
ErrorCodes == {"QUERY_LIMIT_EXCEEDED", "ACCESS_DENIED"}
Failures == {"malformed", "network"}

NoCall == [pc |-> "idle", attempts |-> 0, answers |-> <<>>, data |-> <<>>,
           result |-> <<>>]
NoFetch == [pc |-> "idle", page_size |-> 0, start |-> 0, items |-> <<>>,
            asked |-> <<>>, ret |-> <<>>]

\* b24 is entered: HTTP.post is awaited, the first attempt of a logical call.
B24Post == call' = [NoCall EXCEPT !.pc = "sent", !.attempts = 1]

\* A client that tries again, up to 5 attempts, before it raises.
B24Raise_Retry(how) ==
    IF call.attempts < 5
    THEN /\ call' = [call EXCEPT !.attempts = @ + 1, !.answers = Append(@, how)]
         /\ UNCHANGED fetch
    ELSE /\ call' = [call EXCEPT !.pc = "raised", !.answers = Append(@, how)]
         /\ fetch' = [fetch EXCEPT !.pc = "raised"]

\* The attempt failed: the exception of HTTP.post or resp.json, or the
\* RuntimeError for "error" in data, leaves b24 and then b24_list, whose
\* items are lost with its frame.
B24Raise(how) ==
    /\ call' = [call EXCEPT !.pc = "raised", !.answers = Append(@, how)]
    /\ fetch' = [fetch EXCEPT !.pc = "raised"]

\* b24_list goes on with what b24 returned: the chunk is added; a chunk
\* shorter than page_size ends the loop, any other moves start on by
\* page_size and sleeps.
ListGot(res) ==
    LET chunk == res
        items == fetch.items \o chunk
    IN IF Len(chunk) < fetch.page_size
       THEN fetch' = [fetch EXCEPT !.items = items, !.pc = "returned", !.ret = items]
       ELSE fetch' = [fetch EXCEPT !.items = items, !.pc = "sleep",
                                   !.start = @ + fetch.page_size]

\* b24 returns data.get("result").
B24Return(data) ==
    /\ call' = [call EXCEPT !.pc = "returned", !.answers = Append(@, "ok"),
                            !.data = data, !.result = data.result]
    /\ ListGot(data.result)

\* b24_list(method, page_size=...) is called: start = 0 and the first page
\* is asked for.
b24_list(page_size) ==
    /\ fetch.pc = "idle"
    /\ fetch' = [NoFetch EXCEPT !.pc = "b24", !.page_size = page_size,
                                !.asked = <<0>>]
    /\ B24Post
    /\ UNCHANGED <<portal, report, wizardVars, FACT_ENUM_LIST, cacheVars, libVars>>

\* The HTTP attempt of b24 ends.
b24 ==
    /\ fetch.pc = "b24" /\ call.pc = "sent"
    /\ \/ \E how \in ErrorCodes \cup Failures : B24Raise(how)
       \/ B24Return(ListData(fetch.start))
    /\ UNCHANGED <<portal, report, wizardVars, FACT_ENUM_LIST, cacheVars, libVars>>

\* asyncio.sleep(throttle) is over: the next page is asked for.
b24_list_next ==
    /\ fetch.pc = "sleep"
    /\ fetch' = [fetch EXCEPT !.pc = "b24", !.asked = Append(@, fetch.start)]
    /\ B24Post
    /\ UNCHANGED <<portal, report, wizardVars, FACT_ENUM_LIST, cacheVars, libVars>>

\* ------------------------------------------------------ build_full_report
\* The loop over the deals of one team's stage.  A page of crm.deal.list has
\* 50 deals or none; "next", when the answer has one, is the offset after
\* the page.
ReportCap == 1000
PageLens == {0, 50}
NoCursor == -1

NoReport == [pc |-> "idle", start |-> 0, total |-> 0, has_next |-> TRUE,
             cursor |-> NoCursor, failed |-> FALSE]

\* while has_next and total < 1000: list_deals is called again, or the line
\* of the team is written.
ReportLoop(r) ==
    IF r.has_next /\ r.total < ReportCap
    THEN [r EXCEPT !.pc = "list"]
    ELSE [r EXCEPT !.pc = "done"]

\* total = 0; start = 0; has_next = True, and the loop is entered.
build_full_report ==
    /\ report.pc = "idle"
    /\ report' = ReportLoop(NoReport)
    /\ UNCHANGED <<portal, call, fetch, wizardVars, FACT_ENUM_LIST, cacheVars, libVars>>

\* list_deals raised: res = {}, so no items and no "next".
ReportFailed ==
    report' = ReportLoop([report EXCEPT !.has_next = FALSE, !.cursor = NoCursor,
                                        !.failed = TRUE])

\* list_deals answered n deals, with "next" or without.
ReportGot(n, more) ==
    report' = ReportLoop(
        IF more
        THEN [report EXCEPT !.total = @ + n, !.start = report.start + n,
                            !.cursor = report.start + n, !.has_next = TRUE]
        ELSE [report EXCEPT !.total = @ + n, !.cursor = NoCursor,
                            !.has_next = FALSE])

list_deals ==
    /\ report.pc = "list"
    /\ \/ ReportFailed
       \/ \E n \in PageLens, more \in BOOLEAN : (more => n > 0) /\ ReportGot(n, more)
    /\ UNCHANGED <<portal, call, fetch, wizardVars, FACT_ENUM_LIST, cacheVars, libVars>>

ClientInit ==
    /\ call = NoCall
    /\ fetch = NoFetch
    /\ report = NoReport

\* ------------------------------------------- _facts_page_kb: the keyboard
\* A string whose characters matter is a sequence of them; s[:n] is Take.
Take(s, n) == SubSeq(s, 1, Min(n, Len(s)))

\* name[:64]
TEXT_MAX == 64

\* facts[start:stop] for 0 <= start
Slice(facts, start, stop) == SubSeq(facts, start + 1, Min(stop, Len(facts)))

\* A chunk that starts one option late.
FactsChunk_Late(facts, page) ==
    Slice(facts, page * FACTS_PER_PAGE + 1, page * FACTS_PER_PAGE + FACTS_PER_PAGE)

\* start = page * _FACTS_PER_PAGE; chunk = facts[start:start + _FACTS_PER_PAGE]
FactsChunk(facts, page) ==
    Slice(facts, page * FACTS_PER_PAGE, page * FACTS_PER_PAGE + FACTS_PER_PAGE)

Button(text, data) == [text |-> text, callback_data |-> data]

\* The row of one option: its name cut to 64 characters, "factsel:<deal>:<val>".
FactRow(deal_id, fact) ==
    << Button(Take(fact[2], TEXT_MAX), <<"factsel", deal_id, fact[1]>>) >>

\* The navigation row: Back when page > 0, the page label, Forward when
\* page + 1 < total_pages.
NavRow(deal_id, page, total) ==
    (IF page > 0
     THEN << Button(<<"Back">>, <<"factpage", deal_id, ToString(page - 1)>>) >>
     ELSE <<>>)
    \o << Button(<<"Page ", ToString(page + 1), "/", ToString(total)>>, <<"noop">>) >>
    \o (IF page + 1 < total
        THEN << Button(<<"Forward">>, <<"factpage", deal_id, ToString(page + 1)>>) >>
        ELSE <<>>)

\* _facts_page_kb(deal_id, page, facts): the rows of the inline keyboard.
FactsPageKb(deal_id, page_arg, facts) ==
    LET total == total_pages(facts)
        page == ClampPage(page_arg, facts)
        chunk == FactsChunk(facts, page)
    IN [i \in 1..Len(chunk) |-> FactRow(deal_id, chunk[i])]
       \o (IF total > 1 THEN << NavRow(deal_id, page, total) >> ELSE <<>>)
       \o << << Button(<<"Cancel">>, <<"cmtcancel", deal_id>>) >> >>

\* The option lists the keyboard is built for: n options "1".."n"; the name
\* of option 1 is longer than a button's text may be.
MaxFacts == 17
LongName == [i \in 1..(TEXT_MAX + 1) |-> "x"]
FactsOf(n) ==
    [i \in 1..n |-> <<ToString(i), IF i = 1 THEN LongName ELSE <<"opt", ToString(i)>> >>]
PageArgs == {-1, 0, 1, 2, 3, 5}

NoKb == [pc |-> "idle", deal_id |-> "-", page |-> 0, facts |-> <<>>, markup |-> <<>>]

\* The function is called and returns the keyboard.
facts_page_kb ==
    /\ kb.pc = "call"
    /\ kb' = [kb EXCEPT !.pc = "built",
                        !.markup = FactsPageKb(kb.deal_id, kb.page, kb.facts)]
    /\ UNCHANGED <<wizardVars, FACT_ENUM_LIST, cacheVars, clientVars, conn, runs>>

\* ------------------------------------- _finalize_close: two commits' fields
\* Two calls of _finalize_close, each with its own arguments and its own
\* fetched deal; the crews are the process's _USER_BRIGADE.
Runs == {1, 2}
NoRuns == <<>>

\* Deals as crm.deal.get may answer them: the portal's deal 42, and a deal
\* with no category and no comment.
FetchedDeals ==
    { InitDeals["42"],
      [InitDeals["42"] EXCEPT !.CATEGORY_ID = None, !.COMMENTS = <<>>] }

\* Outcomes as a session holds them, and reasons as the handlers pass them.
Outcomes == { <<"7", <<"Fixed onsite">>>>, <<"8", <<"R", "&", "D">>>> }
Reasons == { <<>>, <<"wet">> }

\* What _USER_BRIGADE may hold when the commits run.
BrigadeMaps ==
    { EmptyDict,
      [u \in {1} |-> 3],
      [u \in {1, 2} |-> 3],
      [u \in {1, 2} |-> IF u = 1 THEN 3 ELSE 4] }

RunInputs ==
    { [pc |-> "called", deal |-> d, user_id |-> u, fact_val |-> o[1],
       fact_name |-> o[2], reason_text |-> r, fields |-> NoFields] :
      d \in FetchedDeals, u \in Users, o \in Outcomes, r \in Reasons }

\* _finalize_close of run i has its deal and builds the fields of its
\* crm.deal.update call.
finalize_close_fields(i) ==
    LET r == runs[i] IN
    /\ r.pc = "called"
    /\ runs' = [runs EXCEPT ![i].pc = "issued",
                            ![i].fields = CloseFields(r.deal, r.user_id, r.fact_val,
                                                      r.fact_name, r.reason_text)]
    /\ UNCHANGED <<wizardVars, FACT_ENUM_LIST, cacheVars, clientVars, kb, conn>>

\* Two commits of one record: each _finalize_close fetches the deal from the
\* backend, builds its fields and has the backend apply them.
RaceDeal == "42"
RaceInputs ==
    { [pc |-> "start", deal |-> NoDeal, user_id |-> u, fact_val |-> o[1],
       fact_name |-> o[2], reason_text |-> r, fields |-> NoFields] :
      u \in Users, o \in Outcomes, r \in Reasons }

\* deal = await b24("crm.deal.get", id=deal_id) answers with the deal.
finalize_close_fetch(i) ==
    /\ runs[i].pc = "start"
    /\ runs' = [runs EXCEPT ![i].pc = "called", ![i].deal = deals[RaceDeal]]
    /\ UNCHANGED <<wizardVars, FACT_ENUM_LIST, cacheVars, clientVars, kb, conn>>

\* await b24("crm.deal.update", id=deal_id, fields=fields): the backend
\* applies the fields and answers.
finalize_close_write(i) ==
    /\ runs[i].pc = "issued"
    /\ deals' = [deals EXCEPT ![RaceDeal] = ApplyUpdate(@, runs[i].fields)]
    /\ runs' = [runs EXCEPT ![i].pc = "written"]
    /\ UNCHANGED <<PENDING_CLOSE, AUTH_USERS, USER_BRIGADE, handlers, last, dispatched,
                   FACT_ENUM_LIST, cacheVars, clientVars, kb, conn>>

\* ------------------------------------------------------------ repo.connect
\* One call of connect at a time: whether _POOL is set, the await the call is
\* suspended on, the loop variable, last_exc, how each pool.acquire ended so
\* far ("ok" or the exception), and what the call returned or raised.
ATTEMPTS == 3
Exceptions == {"TimeoutError", "ConnectionRefusedError",
               "TooManyConnectionsError", "InterfaceError"}
NoExc == "None"

NoConn == [pc |-> "idle", pool |-> FALSE, attempt |-> 0, last_exc |-> NoExc,
           tries |-> <<>>, out |-> NoExc]

\* connect is called: pool = await _get_pool()
connect ==
    /\ conn.pc \in {"idle", "returned", "raised"}
    /\ conn' = [NoConn EXCEPT !.pc = "pool", !.pool = conn.pool]
    /\ UNCHANGED <<wizardVars, FACT_ENUM_LIST, cacheVars, clientVars, kb, runs>>

\* _get_pool returns _POOL, creating it when it is None; create_pool may
\* raise, outside the try of connect.
get_pool ==
    /\ conn.pc = "pool"
    /\ \/ conn' = [conn EXCEPT !.pc = "acquire", !.pool = TRUE]
       \/ /\ ~conn.pool
          /\ \E e \in Exceptions : conn' = [conn EXCEPT !.pc = "raised", !.out = e]
    /\ UNCHANGED <<wizardVars, FACT_ENUM_LIST, cacheVars, clientVars, kb, runs>>

\* An except branch that keeps the exception of the first failure.
AcquireFailed_KeepFirst(e) ==
    conn' = [conn EXCEPT !.pc = "sleep", !.tries = Append(@, e),
                         !.last_exc = IF @ = NoExc THEN e ELSE @]

\* except Exception as e: last_exc = e, and the back-off sleep is awaited.
AcquireFailed(e) ==
    conn' = [conn EXCEPT !.pc = "sleep", !.tries = Append(@, e), !.last_exc = e]

\* conn = await pool.acquire() ends: the connection is returned, wrapped, or
\* the attempt failed.
pool_acquire ==
    /\ conn.pc = "acquire"
    /\ \/ conn' = [conn EXCEPT !.pc = "returned", !.tries = Append(@, "ok"),
                                !.out = "ok"]
       \/ \E e \in Exceptions : AcquireFailed(e)
    /\ UNCHANGED <<wizardVars, FACT_ENUM_LIST, cacheVars, clientVars, kb, runs>>

\* The sleep is over: the next attempt of range(3), or, after the last one,
\* raise last_exc.
backoff_over ==
    /\ conn.pc = "sleep"
    /\ IF conn.attempt + 1 < ATTEMPTS
       THEN conn' = [conn EXCEPT !.pc = "acquire", !.attempt = @ + 1]
       ELSE conn' = [conn EXCEPT !.pc = "raised", !.out = conn.last_exc]
    /\ UNCHANGED <<wizardVars, FACT_ENUM_LIST, cacheVars, clientVars, kb, runs>>


LibInit ==
    /\ kb = NoKb
    /\ conn = NoConn
    /\ runs = NoRuns

\* ------------------------------------------------------------ the system
Init ==
    /\ PENDING_CLOSE = EmptyDict
    /\ FACT_ENUM_LIST = NotLoaded
    /\ AUTH_USERS = {}
    /\ USER_BRIGADE = EmptyDict
    /\ deals = InitDeals
    /\ handlers = [h \in Slots |-> Blank]
    /\ last = Blank
    /\ dispatched = 0
    /\ CachesInit
    /\ ClientInit
    /\ LibInit
    /\ portal = [items |-> 0, page |-> 1]

Feed(h) ==
    \E u \in Senders :
        \/ \E d \in DealIds : feed_close(h, u, d)
        \/ \E p \in PageInputs : feed_factpage(h, u, p)
        \/ \E d \in DealIds, f \in FactInputs : feed_factsel(h, u, d, f)
        \/ feed_reason_skip(h, u)
        \/ \E t \in TextInputs : feed_reason_text(h, u, t)
        \/ feed_cmtcancel(h, u)
        \/ \E c \in {0} \cup Users, p \in BOOLEAN : feed_contact(h, u, c, p)
        \/ \E b \in BrigadeInputs : feed_setbrig(h, u, b)

Step(h) ==
    \/ cb_close_deal_start(h)
    \/ cb_close_deal_start_enum(h)
    \/ cb_fact_page(h)
    \/ cb_fact_page_enum(h)
    \/ cb_fact_page_edited(h)
    \/ cb_fact_select(h)
    \/ cb_fact_select_enum(h)
    \/ cb_reason_skip(h)
    \/ catch_reason_text(h)
    \/ finalize_close_get(h)
    \/ finalize_close_update(h)
    \/ close_get2(h)
    \/ close_card(h)
    \/ close_failed_sent(h)
    \/ cb_close_cancel(h)
    \/ handle_contact_found(h)
    \/ cb_setbrig(h)

Next == \E h \in Slots : Feed(h) \/ Step(h)

Spec == Init /\ [][Next]_vars

\* The event loop resumes every coroutine whose await is over, and every
\* await of a handler is over in bounded time: a backend call by its answer
\* or by the session's timeout, a Telegram call likewise.
SpecLive == Init /\ [][Next]_vars /\ \A h \in Slots : WF_vars(Step(h))

\* The cache getters, called by any number of coroutines.
NextCache ==
    \E g \in GetSlots :
        \/ get_deal_type_map(g)
        \/ get_router_enum_map(g)
        \/ get_tariff_enum_map(g)
        \/ get_fact_enum_list(g)
        \/ get_fetched(g)

SpecCache == Init /\ [][NextCache]_vars

\* The API client against any portal: one b24_list and one report loop.
InitClient ==
    /\ PENDING_CLOSE = EmptyDict
    /\ FACT_ENUM_LIST = NotLoaded
    /\ AUTH_USERS = {}
    /\ USER_BRIGADE = EmptyDict
    /\ deals = InitDeals
    /\ handlers = [h \in Slots |-> Blank]
    /\ last = Blank
    /\ dispatched = 0
    /\ CachesInit
    /\ ClientInit
    /\ LibInit
    /\ portal \in Portals

NextClient ==
    \/ \E page_size \in PageSizes : b24_list(page_size)
    \/ b24
    \/ b24_list_next
    \/ build_full_report
    \/ list_deals

SpecClient == InitClient /\ [][NextClient]_vars

\* _facts_page_kb on any option list and any page argument.
InitMenu ==
    /\ PENDING_CLOSE = EmptyDict
    /\ FACT_ENUM_LIST = NotLoaded
    /\ AUTH_USERS = {}
    /\ USER_BRIGADE = EmptyDict
    /\ deals = InitDeals
    /\ handlers = [h \in Slots |-> Blank]
    /\ last = Blank
    /\ dispatched = 0
    /\ CachesInit
    /\ ClientInit
    /\ portal = [items |-> 0, page |-> 1]
    /\ conn = NoConn
    /\ runs = NoRuns
    /\ \E n \in 0..MaxFacts, page \in PageArgs :
         kb = [NoKb EXCEPT !.pc = "call", !.deal_id = "42", !.page = page,
                           !.facts = FactsOf(n)]

NextMenu == facts_page_kb

\* Two commits on any inputs.
InitPayload ==
    /\ PENDING_CLOSE = EmptyDict
    /\ FACT_ENUM_LIST = NotLoaded
    /\ AUTH_USERS = {}
    /\ USER_BRIGADE \in BrigadeMaps
    /\ deals = InitDeals
    /\ handlers = [h \in Slots |-> Blank]
    /\ last = Blank
    /\ dispatched = 0
    /\ CachesInit
    /\ ClientInit
    /\ portal = [items |-> 0, page |-> 1]
    /\ kb = NoKb
    /\ conn = NoConn
    /\ runs \in [Runs -> RunInputs]

\* repo.connect, called again and again.
InitRepo ==
    /\ PENDING_CLOSE = EmptyDict
    /\ FACT_ENUM_LIST = NotLoaded
    /\ AUTH_USERS = {}
    /\ USER_BRIGADE = EmptyDict
    /\ deals = InitDeals
    /\ handlers = [h \in Slots |-> Blank]
    /\ last = Blank
    /\ dispatched = 0
    /\ CachesInit
    /\ ClientInit
    /\ portal = [items |-> 0, page |-> 1]
    /\ kb = NoKb
    /\ runs = NoRuns
    /\ conn = NoConn

NextRepo ==
    \/ connect
    \/ get_pool
    \/ pool_acquire
    \/ backoff_over

SpecRepo == InitRepo /\ [][NextRepo]_vars

NextPayload == \E i \in Runs : finalize_close_fields(i)

SpecPayload == InitPayload /\ [][NextPayload]_vars

\* Two commits of deal 42, by any users, interleaved at their awaits.
InitRace ==
    /\ PENDING_CLOSE = EmptyDict
    /\ FACT_ENUM_LIST = NotLoaded
    /\ AUTH_USERS = {}
    /\ USER_BRIGADE \in BrigadeMaps
    /\ deals = InitDeals
    /\ handlers = [h \in Slots |-> Blank]
    /\ last = Blank
    /\ dispatched = 0
    /\ CachesInit
    /\ ClientInit
    /\ portal = [items |-> 0, page |-> 1]
    /\ kb = NoKb
    /\ conn = NoConn
    /\ runs \in [Runs -> RaceInputs]

NextRace ==
    \E i \in Runs :
        \/ finalize_close_fetch(i)
        \/ finalize_close_fields(i)
        \/ finalize_close_write(i)

SpecRace == InitRace /\ [][NextRace]_vars

SpecMenu == InitMenu /\ [][NextMenu]_vars

\* ---------------------------------------------------------------- claims
\* Handler h takes a step (its await completes).
Steps(h) == handlers[h].pc # "free" /\ handlers'[h].pc # handlers[h].pc

\* Handler h takes its last step.
Ends(h) == handlers[h].pc # "free" /\ handlers'[h].pc = "free"

HasSession(u) == u \in DOMAIN PENDING_CLOSE
AwaitsReason(u) == HasSession(u) /\ PENDING_CLOSE[u].stage = "await_reason"
FactIds(facts) == {facts[i][1] : i \in DOMAIN facts}

\* C1: a user's session has stage await_reason only if it was written by a
\* cb_fact_select of that user whose outcome id was an option of the cached
\* enumeration at that moment; the stored fact_val and fact_name are that
\* option's id and label.  Every step that makes a session await_reason, or
\* changes the outcome of one, is such a step.
C1_AwaitReasonOnlyBySelect ==
    [][\A u \in Users :
        (/\ u \in DOMAIN PENDING_CLOSE'
         /\ PENDING_CLOSE'[u].stage = "await_reason"
         /\ \/ ~AwaitsReason(u)
            \/ PENDING_CLOSE[u].fact_val # PENDING_CLOSE'[u].fact_val
            \/ PENDING_CLOSE[u].fact_name # PENDING_CLOSE'[u].fact_name
            \/ PENDING_CLOSE[u].deal_id # PENDING_CLOSE'[u].deal_id)
        => \E h \in Slots :
            /\ Ends(h)
            /\ handlers[h].kind = "factsel" /\ handlers[h].uid = u
            /\ PENDING_CLOSE'[u].fact_val = handlers[h].fact_val
            /\ PENDING_CLOSE'[u].deal_id = handlers[h].deal_id
            /\ FACT_ENUM_LIST'.loaded
            /\ \E i \in DOMAIN FACT_ENUM_LIST'.list :
                 FACT_ENUM_LIST'.list[i] =
                    <<PENDING_CLOSE'[u].fact_val, PENDING_CLOSE'[u].fact_name>>
      ]_vars

\* C1 witness: a select of a cached option has just put the user in
\* await_reason.
C1_Witness ==
    /\ last.kind = "factsel" /\ "reason_prompt" \in last.msgs
    /\ AwaitsReason(last.uid)
    /\ PENDING_CLOSE[last.uid].fact_val = "8"
    /\ PENDING_CLOSE[last.uid].fact_name = <<"R", "&", "D">>

\* C2: a crm.deal.update call is awaited only by a cb_reason_skip or
\* catch_reason_text that read a session in stage await_reason; no other
\* handler, and no such handler that found no session or a pick_fact
\* session, ever issues one.
C2_UpdateOnlyFromAwaitReason ==
    \A h \in Slots :
        handlers[h].pc = "fin_upd"
        => /\ handlers[h].kind \in {"reason_skip", "reason_text"}
           /\ handlers[h].ctx_stage = "await_reason"
           /\ handlers[h].fields # NoFields

\* C2 witness: a reason message's handler has issued the update.
C2_Witness ==
    \E h \in Slots :
        /\ handlers[h].pc = "fin_upd" /\ handlers[h].kind = "reason_text"
        /\ handlers[h].fields.UF_CRM_1702456465911 = <<"wet">>

\* C3 (as claimed): a page-nav, select-outcome, provide-reason or skip step
\* taken while the user has no session leaves the user without a session.
C3_NoSessionStaysNone ==
    [][\A h \in Slots :
        (/\ Steps(h)
         /\ handlers[h].kind \in {"factpage", "factsel", "reason_skip", "reason_text"}
         /\ ~HasSession(handlers[h].uid))
        => handlers[h].uid \notin DOMAIN PENDING_CLOSE'
      ]_vars

\* C4: when cb_close_deal_start has returned, the user's session is exactly
\* {deal_id: the named record, stage: pick_fact, page: 0}, whatever was
\* pending before.
C4_StartIsFresh ==
    (last.kind = "close" /\ last.pc = "done")
    => /\ HasSession(last.uid)
       /\ PENDING_CLOSE[last.uid] =
            [deal_id |-> last.deal_id, stage |-> "pick_fact", page |-> 0]

\* C4 witness: a Start has replaced the await_reason session that a commit
\* still in flight had read.
C4_Witness ==
    /\ last.kind = "close" /\ last.pc = "done"
    /\ HasSession(last.uid) /\ PENDING_CLOSE[last.uid].stage = "pick_fact"
    /\ \E h \in Slots :
        /\ handlers[h].uid = last.uid /\ handlers[h].pc \in CommitPcs
        /\ handlers[h].ctx_stage = "await_reason" /\ handlers[h].raced

\* C5 (as claimed): no commit writes the record after a Cancel of its user
\* has removed the session the commit had read.
C5_NoUpdateAfterCancel ==
    [][\A h \in Slots :
        (handlers[h].pc = "fin_upd" /\ deals' # deals /\ Steps(h))
        => ~handlers[h].cancelled
      ]_vars

\* C6 (as claimed): a Start or select-outcome that was in flight when a
\* Cancel of its user ran writes no session when it resumes.
C6_NoSessionAfterCancel ==
    [][\A h \in Slots :
        (/\ Steps(h)
         /\ handlers[h].kind \in {"close", "factsel"}
         /\ handlers[h].cancelled)
        => PENDING_CLOSE' = PENDING_CLOSE
      ]_vars

\* C7 (as claimed): between a handler's read of the user's entry and its own
\* write or pop of it, no other handler writes or pops that entry.
C7_SerializedPerUser ==
    [][\A h \in Slots :
        (Ends(h) /\ handlers[h].pc \in CommitPcs) => ~handlers[h].raced
      ]_vars

\* C8: when a cb_reason_skip or catch_reason_text that read an await_reason
\* session has ended, however its commit went, the user has no session.
C8_CommitClearsSession ==
    (/\ last.kind \in {"reason_skip", "reason_text"}
     /\ last.ctx_stage = "await_reason")
    => ~HasSession(last.uid)

\* C8 witness: a skip whose update succeeded and whose follow-up raised has
\* ended.
C8_Witness ==
    /\ last.kind = "reason_skip" /\ last.ctx_stage = "await_reason"
    /\ {"closed", "close_error"} \subseteq last.msgs
    /\ ~HasSession(last.uid)

\* A cb_fact_select returns having looked its outcome id up in an
\* enumeration that does not hold it.
SelectUnknownEnds(h) ==
    /\ Ends(h)
    /\ handlers[h].kind = "factsel"
    /\ last'.pc = "done"
    /\ handlers[h].fact_val \notin FactIds(FACT_ENUM_LIST'.list)

\* C9 (as claimed): select-outcome with an id that is not in the cached
\* enumeration sends a failure message and leaves the user without a
\* session.
C9_UnknownSelectAborts ==
    [][\A h \in Slots :
        SelectUnknownEnds(h)
        => /\ "select_failed" \in last'.msgs
           /\ handlers[h].uid \notin DOMAIN PENDING_CLOSE'
      ]_vars

\* C9 (amended): select-outcome with an id that is not in the cached
\* enumeration sends a failure message and does not abort the wizard: the
\* user has a session after it exactly if the user had one before it.
C9_UnknownSelectReports ==
    [][\A h \in Slots :
        SelectUnknownEnds(h)
        => /\ "select_failed" \in last'.msgs
           /\ HasSession(handlers[h].uid) <=> handlers[h].uid \in DOMAIN PENDING_CLOSE'
      ]_vars

\* C9 witness: a select of an id the enumeration does not hold has failed
\* and the user is still in await_reason.
C9_Witness ==
    /\ last.kind = "factsel" /\ "select_failed" \in last.msgs
    /\ FACT_ENUM_LIST.loaded /\ last.fact_val \notin FactIds(FACT_ENUM_LIST.list)
    /\ AwaitsReason(last.uid)

\* C10: select-outcome with an id that is not in the cached enumeration
\* leaves the session store as it was: the user's session (record id,
\* stage, page) is the same after the handler as before it.
C10_UnknownSelectKeepsSession ==
    [][\A h \in Slots : SelectUnknownEnds(h) => PENDING_CLOSE' = PENDING_CLOSE]_vars

\* C10 witness: a select of an id the enumeration does not hold has failed
\* and the pick_fact session of the Start before it is intact.
C10_Witness ==
    /\ last.kind = "factsel" /\ "select_failed" \in last.msgs
    /\ FACT_ENUM_LIST.loaded /\ last.fact_val \notin FactIds(FACT_ENUM_LIST.list)
    /\ HasSession(last.uid)
    /\ PENDING_CLOSE[last.uid] = [deal_id |-> "43", stage |-> "pick_fact", page |-> -1]

\* C11 (as claimed): when cb_fact_page has returned, the page stored in the
\* user's session is the page the keyboard shows: it lies in
\* [0, total_pages - 1] of the cached list.
C11_StoredPageClamped ==
    (/\ last.kind = "factpage" /\ last.pc = "done"
     /\ HasSession(last.uid)
     /\ "page" \in DOMAIN PENDING_CLOSE[last.uid])
    => PENDING_CLOSE[last.uid].page =
          ClampPage(PENDING_CLOSE[last.uid].page, FACT_ENUM_LIST.list)

\* C12: a commit whose crm.deal.get found no deal never awaits
\* crm.deal.update: every commit past the fetch has a deal, and a commit
\* for a missing deal ends with the failure message and without the
\* confirmation.
C12_NoUpdateWithoutDeal ==
    /\ \A h \in Slots :
         handlers[h].pc \in {"fin_upd", "get2", "card"}
         => handlers[h].deal_id \in DOMAIN deals
    /\ (last.kind \in {"reason_skip", "reason_text"} /\ last.pc = "done"
        /\ last.ctx_stage = "await_reason" /\ last.deal_id \notin DOMAIN deals)
       => ("close_error" \in last.msgs /\ "closed" \notin last.msgs)

\* C12 witness: a skip for deal 43, which the portal does not have, has
\* ended with the failure message and the deals are as they were.
C12_Witness ==
    /\ last.kind = "reason_skip" /\ last.pc = "done"
    /\ last.ctx_stage = "await_reason" /\ last.deal_id = "43"
    /\ last.msgs = {"close_error"}
    /\ deals = InitDeals

\* The step in which handler h's crm.deal.get answers with the deal and the
\* handler calls crm.deal.update.
IssuesUpdate(h) == handlers[h].pc = "fin_get" /\ handlers'[h].pc = "fin_upd"

\* sub occurs in s as a run of consecutive tokens.
Contains(s, sub) ==
    \E i \in 0..(Len(s) - Len(sub)) : SubSeq(s, i + 1, i + Len(sub)) = sub

UserHasCrew(u) == u \in DOMAIN USER_BRIGADE

\* What C13 says of an update call, but for the stage suffix and the form
\* of the label in the comment.
UpdateCarries(h, suffix, label) ==
    LET r == handlers[h]
        f == handlers'[h].fields
    IN /\ f.STAGE_ID = <<"C", deals[r.deal_id].CATEGORY_ID, suffix>>
       /\ f.UF_CRM_1602766787968 = r.fact_val
       /\ f.UF_CRM_1702456465911 = r.reason_text
       /\ r.kind = "reason_skip" => f.UF_CRM_1702456465911 = <<>>
       /\ r.kind = "reason_text" =>
            \E t \in TextInputs : f.UF_CRM_1702456465911 = Strip(t)
       /\ UserHasCrew(r.uid) =>
            /\ "UF_CRM_1611995532420" \in DOMAIN f
            /\ f.UF_CRM_1611995532420 = <<BRIGADE_EXEC_OPTION_ID[USER_BRIGADE[r.uid]]>>
       /\ ~UserHasCrew(r.uid) => "UF_CRM_1611995532420" \notin DOMAIN f
       /\ Contains(f.COMMENTS, label)

\* A commit calls crm.deal.update at most once: only the answer of the
\* first crm.deal.get leads to the call.
OneUpdatePerCommit(h) ==
    (handlers'[h].pc = "fin_upd" /\ handlers[h].pc # "fin_upd") => IssuesUpdate(h)

\* C13 (as claimed): a commit issues one update call, which carries the
\* stage "C<category>:DONE", the outcome id, the reason text ("" on skip),
\* the executor tag of the user's crew exactly when the user has one, and a
\* comment containing the outcome label.
C13_UpdateAsClaimed ==
    [][\A h \in Slots :
        /\ OneUpdatePerCommit(h)
        /\ IssuesUpdate(h) => UpdateCarries(h, ":DONE", handlers[h].fact_name)
      ]_vars

\* C13 (amended): a commit issues one update call, which carries the stage
\* "C<category>:WON", the outcome id, the reason text with the white space
\* around it removed ("" on skip), the executor tag of the user's crew
\* exactly when the user has one, and a comment containing the outcome
\* label as html.escape writes it.
C13_UpdateCarriesClose ==
    [][\A h \in Slots :
        /\ OneUpdatePerCommit(h)
        /\ IssuesUpdate(h) => UpdateCarries(h, ":WON", HtmlEscape(handlers[h].fact_name))
      ]_vars

\* C13 witness: the user of crew 3 chose outcome 7 "Fixed onsite" for deal
\* 42 and skipped the reason; the update call is out.
C13_Witness ==
    \E h \in Slots :
        /\ handlers[h].pc = "fin_upd" /\ handlers[h].kind = "reason_skip"
        /\ handlers[h].deal_id = "42"
        /\ handlers[h].fields =
             [STAGE_ID |-> <<"C", "20", ":WON">>,
              COMMENTS |-> <<"old", "\n", "\n", "[p]", "<b>Closing:</b> ",
                             "Fixed onsite", "[/p]">>,
              UF_CRM_1602766787968 |-> "7",
              UF_CRM_1702456465911 |-> <<>>,
              UF_CRM_1611995532420 |-> <<5498>>]

\* C14 (as claimed): the COMMENTS of the update call is the deal's comment as
\* fetched, unchanged, followed by the audit block; the audit block alone
\* when the deal has no comment.
C14_CommentPreserved ==
    [][\A h \in Slots :
        IssuesUpdate(h) =>
          LET r == handlers[h]
              prior == deals[r.deal_id].COMMENTS
              block == AuditBlock(r.fact_name, r.reason_text)
              new == handlers'[h].fields.COMMENTS
          IN IF prior = <<>> THEN new = block
             ELSE /\ Len(new) >= Len(prior) + Len(block)
                  /\ SubSeq(new, 1, Len(prior)) = prior
                  /\ SubSeq(new, Len(new) - Len(block) + 1, Len(new)) = block
      ]_vars

\* C20: once the cache of a field is populated, a get of that field that is
\* called later does not go to the backend and returns what is stored, for
\* each of the four getters: no getter is suspended on the backend for a
\* field whose cache is populated at the call, and a get that returns at
\* once made no backend call, returns the stored value and leaves every
\* cache as it is.
C20_CacheHitNoBackendCall ==
    [][/\ \A g \in GetSlots :
            (getters[g].pc = "free" /\ getters'[g].pc = "fetch")
            => ~CacheOf(getters'[g].field).loaded
       /\ (getters' = getters /\ got'.hit)
          => /\ CacheOf(got'.field).loaded
             /\ got'.calls = 0
             /\ got'.value = CacheOf(got'.field).list
             /\ caches' = caches
      ]_vars

\* C20 witness: get_router_enum_map has returned the stored map without a
\* backend call, after a get that had fetched it.
C20_Witness ==
    /\ got.hit /\ got.field = "router" /\ got.calls = 0
    /\ ROUTER_ENUM_MAP.loaded
    /\ DOMAIN ROUTER_ENUM_MAP.list = {"7", "None", "8"}
    /\ DOMAIN got.value = {"7", "None", "8"}

\* The logical call under way has ended.
CallEnded == call.pc \in {"returned", "raised"}

\* Every attempt of the call was answered with the rate-limit error.
AllRateLimited ==
    /\ call.answers # <<>>
    /\ \A i \in DOMAIN call.answers : call.answers[i] = "QUERY_LIMIT_EXCEEDED"

\* C15 (as claimed): a logical call whose every attempt is answered with the
\* rate-limit error ends, with an error, after exactly 5 attempts.
C15_RateLimitFiveAttempts ==
    (CallEnded /\ AllRateLimited) => (call.pc = "raised" /\ call.attempts = 5)

\* C16: a logical call makes one HTTP attempt: when the attempt ends in an
\* error other than the rate limit, a body that is not JSON or a network
\* failure, b24 raises to its caller after that one attempt; when the
\* answer has no "error", b24 returns its "result" as it came.
C16_OneAttemptNoRetry ==
    /\ (call.pc = "raised" /\ call.answers[Len(call.answers)] # "QUERY_LIMIT_EXCEEDED")
       => (call.attempts = 1 /\ Len(call.answers) = 1 /\ fetch.pc = "raised")
    /\ call.pc = "sent"
       => \A i \in DOMAIN call.answers : call.answers[i] = "QUERY_LIMIT_EXCEEDED"
    /\ call.pc = "returned"
       => /\ call.attempts = 1
          /\ "error" \notin DOMAIN call.data
          /\ call.result = call.data.result

\* C16 witness: the backend answered the second page of a list with
\* ACCESS_DENIED and b24 raised after one attempt.
C16_Witness ==
    /\ call.pc = "raised" /\ call.answers = <<"ACCESS_DENIED">>
    /\ call.attempts = 1
    /\ Len(fetch.asked) = 2 /\ fetch.pc = "raised"

\* C17 (as claimed): b24_list returns the N items of the backend's list, each
\* once and in backend order, having asked for the offsets 0, page_size,
\* 2 * page_size, ..., whatever the backend's page size and the page_size
\* it was called with.
C17_FetchAllComplete ==
    fetch.pc = "returned"
    => /\ fetch.ret = [i \in 1..portal.items |-> i]
       /\ \A k \in DOMAIN fetch.asked : fetch.asked[k] = (k - 1) * fetch.page_size

\* C18 (as claimed): the loop of build_full_report follows "next" and ends
\* exactly when an answer has none: it is over only after an answer without
\* a cursor, and what it asks for is the cursor of the answer before.
C18_StopsOnlyWithoutCursor ==
    /\ report.pc = "list" => report.start = (IF report.cursor = NoCursor THEN 0
                                             ELSE report.cursor)
    /\ (report.pc = "done" /\ ~report.failed) => report.cursor = NoCursor

\* C19 (as claimed): a paginated fetch one of whose page requests failed
\* gives its caller nothing of the pages before the failure: b24_list
\* returns no items, and the report loop counts none.
C19_NoPartialResult ==
    /\ fetch.pc = "raised" => fetch.ret = <<>>
    /\ (report.pc = "done" /\ report.failed) => report.total = 0

\* C21 (as claimed): a cache that is populated keeps its value: no step
\* changes a populated _DEAL_TYPE_MAP, _ROUTER_ENUM_MAP, _TARIFF_ENUM_MAP or
\* _FACT_ENUM_LIST, whatever the backend answers to a fetch that was under
\* way when it was populated.
C21_CacheWriteOnce ==
    [][/\ DEAL_TYPE_MAP.loaded => DEAL_TYPE_MAP' = DEAL_TYPE_MAP
       /\ ROUTER_ENUM_MAP.loaded => ROUTER_ENUM_MAP' = ROUTER_ENUM_MAP
       /\ TARIFF_ENUM_MAP.loaded => TARIFF_ENUM_MAP' = TARIFF_ENUM_MAP
       /\ FACT_ENUM_LIST.loaded => FACT_ENUM_LIST' = FACT_ENUM_LIST
      ]_vars

\* The buttons of a keyboard, row after row.
RECURSIVE Buttons(_)
Buttons(rows) == IF rows = <<>> THEN <<>> ELSE Head(rows) \o Buttons(Tail(rows))

IsFactButton(b) == b.callback_data[1] = "factsel"

\* The option ids a keyboard offers, in the order it shows them.
ShownIds(rows) ==
    LET bs == SelectSeq(Buttons(rows), IsFactButton)
    IN [i \in 1..Len(bs) |-> bs[i].callback_data[3]]

\* The keyboard has a control that leads to the page.
HasNavTo(rows, page) ==
    \E i \in DOMAIN Buttons(rows) :
        Buttons(rows)[i].callback_data = <<"factpage", kb.deal_id, ToString(page)>>

\* C22: for every option list and every page argument the keyboard shows
\* exactly options[p*8 : p*8+8], in list order, where p is the argument
\* clamped into [0, pageCount - 1]; it has a Back control (to p - 1) iff
\* p > 0 and a Forward control (to p + 1) iff p + 1 < pageCount.
C22_MenuShowsPage ==
    kb.pc = "built" =>
      LET n == Len(kb.facts)
          pageCount == IF n = 0 THEN 1 ELSE (n + 7) \div 8
          low == IF kb.page < pageCount - 1 THEN kb.page ELSE pageCount - 1
          p == IF low > 0 THEN low ELSE 0
          first == p * 8 + 1
          lastOpt == IF p * 8 + 8 < n THEN p * 8 + 8 ELSE n
      IN /\ ShownIds(kb.markup) = [i \in 1..(lastOpt - first + 1) |-> kb.facts[first + i - 1][1]]
         /\ HasNavTo(kb.markup, p - 1) <=> p > 0
         /\ HasNavTo(kb.markup, p + 1) <=> p + 1 < pageCount

\* C22 witness: of 17 options, the page argument 5 shows page 2: option 17
\* alone, with Back and without Forward.
C22_Witness ==
    /\ kb.pc = "built" /\ Len(kb.facts) = 17 /\ kb.page = 5
    /\ ShownIds(kb.markup) = <<"17">>
    /\ HasNavTo(kb.markup, 1) /\ ~HasNavTo(kb.markup, 3)

\* C23 (as claimed): a wizard handler that a backend or network error has
\* ended has sent the user a failure message.  For Start, page-nav and
\* select-outcome, whose only backend call is the fetch of the enumeration,
\* that is: a handler that ended on the exception has sent a message; for a
\* commit: one that ended without the card has sent the failure message.
C23_ErrorsReachUser ==
    /\ (last.kind \in {"close", "factpage", "factsel"} /\ last.pc = "raised")
       => last.msgs # {}
    /\ (/\ last.kind \in {"reason_skip", "reason_text"} /\ last.pc = "done"
        /\ last.ctx_stage = "await_reason" /\ "card" \notin last.msgs)
       => "close_error" \in last.msgs

\* C24 (as claimed): when a cb_close_deal_start has ended on the failure of
\* its fetch of the enumeration, its user has no session: no new one, and
\* none that was pending before.
C24_FailedStartLeavesNoSession ==
    (last.kind = "close" /\ last.pc = "raised") => ~HasSession(last.uid)

\* C25 (as claimed): a commit that is failing after the backend applied its
\* update has reported something that a commit failing before any write has
\* not: the latter reaches its failure message having sent nothing, the
\* former has sent the confirmation.
C25_PartialCommitDistinct ==
    \A h \in Slots :
        /\ (handlers[h].pc = "errmsg" /\ ~handlers[h].wrote) => handlers[h].msgs = {}
        /\ (handlers[h].pc = "errmsg" /\ handlers[h].wrote) => handlers[h].msgs # {}

\* C26: every backend call ends, by an answer or by the timeout, so no
\* handler stays suspended forever: every handler in flight eventually
\* ends, and a session that a commit has read is eventually removed.
C26_HandlersEnd ==
    /\ \A h \in Slots : (handlers[h].pc # "free") ~> (handlers[h].pc = "free")
    /\ \A h \in Slots, u \in Users :
         (handlers[h].pc \in CommitPcs /\ handlers[h].uid = u) ~> ~HasSession(u)

\* C26 witness: a reason message's commit for deal 42 got no answer to its
\* crm.deal.get, sent the failure message and ended; the session is gone
\* and the deal is as it was.
C26_Witness ==
    /\ last.kind = "reason_text" /\ last.pc = "done"
    /\ last.ctx_stage = "await_reason" /\ last.deal_id = "42"
    /\ last.msgs = {"close_error"}
    /\ ~HasSession(last.uid)
    /\ deals = InitDeals

\* The inputs of a commit: the fetched record, the outcome, the reason and
\* the crew of the acting user.
SameInputs(a, b) ==
    /\ a.deal = b.deal
    /\ a.fact_val = b.fact_val /\ a.fact_name = b.fact_name
    /\ a.reason_text = b.reason_text
    /\ get_user_brigade(a.user_id) = get_user_brigade(b.user_id)

\* C27: two commits with the same fetched record, outcome id and label,
\* reason text and crew issue the same update fields, whoever the acting
\* users are.
C27_PayloadDeterministic ==
    \A i, j \in DOMAIN runs :
        (runs[i].pc = "issued" /\ runs[j].pc = "issued" /\ SameInputs(runs[i], runs[j]))
        => runs[i].fields = runs[j].fields

\* C27 witness: users 1 and 2, both of crew 3, have committed the same
\* outcome and reason on the same record, and both calls carry the tag of
\* crew 3.
C27_Witness ==
    /\ DOMAIN runs = Runs
    /\ runs[1].pc = "issued" /\ runs[2].pc = "issued"
    /\ runs[1].user_id = 1 /\ runs[2].user_id = 2
    /\ SameInputs(runs[1], runs[2])
    /\ runs[1].reason_text = <<"wet">>
    /\ "UF_CRM_1611995532420" \in DOMAIN runs[1].fields
    /\ runs[1].fields.UF_CRM_1611995532420 = <<5498>>
    /\ runs[2].fields = runs[1].fields

\* C28 (as claimed): a user enters _AUTH_USERS only by a handle_contact whose
\* contact carries that user's own id: a contact with another user's id, or
\* with no user id, authenticates nobody.
C28_AuthOnlyByOwnContact ==
    [][\A u \in Users :
        (u \in AUTH_USERS' /\ u \notin AUTH_USERS)
        => \E h \in Slots :
             /\ Ends(h)
             /\ handlers[h].kind = "contact" /\ handlers[h].uid = u
             /\ handlers[h].contact_uid = u
      ]_vars

\* The acquisitions of the call so far that failed.
FailedTries == {i \in DOMAIN conn.tries : conn.tries[i] # "ok"}

\* C29: connect makes at most 3 attempts to acquire a connection; it returns
\* on the first attempt that succeeds, with no attempt after it; with the
\* pool there it raises only after 3 failed attempts, and then the exception
\* of the third.
C29_ConnectThreeAttempts ==
    /\ Len(conn.tries) <= 3
    /\ \A i \in DOMAIN conn.tries :
         conn.tries[i] = "ok" => (i = Len(conn.tries) /\ conn.pc = "returned")
    /\ conn.pc = "returned" => conn.tries[Len(conn.tries)] = "ok"
    /\ (conn.pc = "raised" /\ conn.tries # <<>>)
       => /\ Len(conn.tries) = 3 /\ FailedTries = 1..3
          /\ conn.out = conn.tries[3]
    /\ (conn.pc = "raised" /\ conn.tries = <<>>) => ~conn.pool

\* C29 witness: three acquisitions failed, each with its own exception, and
\* connect raised the third.
C29_Witness ==
    /\ conn.pc = "raised"
    /\ conn.tries = <<"TimeoutError", "ConnectionRefusedError", "InterfaceError">>
    /\ conn.out = "InterfaceError"

\* The commit in slot h has called crm.deal.update.
HasIssuedUpdate(h) ==
    handlers[h].pc \in {"fin_upd", "get2", "card"} \/ handlers[h].wrote

\* C30 (as claimed): one await_reason session leads to at most one
\* crm.deal.update: no two commits that read the same session (the entry of
\* one user, not written or popped between and after the two reads) have
\* both called crm.deal.update.
C30_OneUpdatePerSession ==
    \A h1, h2 \in Slots :
        (/\ h1 # h2
         /\ handlers[h1].uid = handlers[h2].uid
         /\ handlers[h1].ctx_stage = "await_reason" /\ ~handlers[h1].raced
         /\ handlers[h2].ctx_stage = "await_reason" /\ ~handlers[h2].raced
         /\ HasIssuedUpdate(h1))
        => ~HasIssuedUpdate(h2)

\* C31 (as claimed): the pop at the end of a commit removes only the session
\* the commit read: when the user's session is by then one for another
\* record, written by a Start or a select-outcome while the commit was in
\* flight, it is still there, unchanged, after the commit handler has ended.
C31_CommitPopsOwnSession ==
    [][\A h \in Slots :
        (/\ Ends(h)
         /\ handlers[h].pc \in CommitPcs
         /\ HasSession(handlers[h].uid)
         /\ PENDING_CLOSE[handlers[h].uid].deal_id # handlers[h].deal_id)
        => /\ handlers[h].uid \in DOMAIN PENDING_CLOSE'
           /\ PENDING_CLOSE'[handlers[h].uid] = PENDING_CLOSE[handlers[h].uid]
      ]_vars

\* The comment holds the audit block of the run, the [p] tags apart (the
\* tags of a block are dropped when a later commit appends to it).
HoldsBlockOf(comment, r) ==
    Contains(StripBB(comment), StripBB(AuditBlock(r.fact_name, r.reason_text)))

\* C32 (as claimed): when two different users have both committed a close of
\* the same record, the record's comment holds the audit blocks of both
\* commits, however the two commits were interleaved.
C32_BothAuditBlocksKept ==
    (/\ DOMAIN runs = Runs
     /\ runs[1].pc = "written" /\ runs[2].pc = "written"
     /\ runs[1].user_id # runs[2].user_id)
    => /\ HoldsBlockOf(deals[RaceDeal].COMMENTS, runs[1])
       /\ HoldsBlockOf(deals[RaceDeal].COMMENTS, runs[2])

\* C33 (as claimed): the result message of a commit agrees with the backend:
\* a commit is sending the closing-failure message only when the backend has
\* not applied its crm.deal.update, and has sent the confirmation only when
\* the backend has applied it; a failure after the update leads to no
\* closing-failure message.
C33_ResultMatchesBackend ==
    \A h \in Slots :
        /\ handlers[h].pc = "errmsg" => ~handlers[h].wrote
        /\ "closed" \in handlers[h].msgs => handlers[h].wrote

\* C34 (as claimed): the record id of a session is set only by Start: no
\* step of a handler other than cb_close_deal_start leaves the user with a
\* session whose record id differs from the one the session had.
C34_RecordIdSetByStartOnly ==
    [][\A h \in Slots, u \in Users :
        (/\ Step(h)
         /\ handlers[h].kind # "close"
         /\ HasSession(u)
         /\ u \in DOMAIN PENDING_CLOSE')
        => PENDING_CLOSE'[u].deal_id = PENDING_CLOSE[u].deal_id
      ]_vars

\* C35 (as claimed): every option of the cached enumeration can be selected,
\* an option whose label is the empty string included: a cb_fact_select that
\* returns having found its outcome id among the cached options leaves its
\* user in await_reason with that outcome.
C35_EveryCachedOptionSelectable ==
    [][\A h \in Slots :
        (/\ Ends(h)
         /\ handlers[h].kind = "factsel"
         /\ last'.pc = "done"
         /\ handlers[h].fact_val \in FactIds(FACT_ENUM_LIST'.list))
        => /\ handlers[h].uid \in DOMAIN PENDING_CLOSE'
           /\ PENDING_CLOSE'[handlers[h].uid].stage = "await_reason"
           /\ PENDING_CLOSE'[handlers[h].uid].fact_val = handlers[h].fact_val
      ]_vars

WizardKinds == {"close", "factpage", "factsel", "reason_skip", "reason_text", "cmtcancel"}

\* C36: the wizard acts only for authenticated users: no step creates,
\* changes or removes the session of a user who is not in the authenticated
\* set, no crm.deal.update is issued for such a user, and every step of a
\* wizard handler is a step for an authenticated user.
C36_WizardOnlyForAuthed ==
    [][/\ \A u \in Users :
            (\/ (u \in DOMAIN PENDING_CLOSE) # (u \in DOMAIN PENDING_CLOSE')
             \/ /\ u \in DOMAIN PENDING_CLOSE /\ u \in DOMAIN PENDING_CLOSE'
                /\ PENDING_CLOSE'[u] # PENDING_CLOSE[u])
            => u \in AUTH_USERS
       /\ \A h \in Slots :
            (Steps(h) /\ handlers[h].kind \in WizardKinds) => handlers[h].uid \in AUTH_USERS
       /\ \A h \in Slots : IssuesUpdate(h) => handlers[h].uid \in AUTH_USERS
      ]_vars

\* C36 witness: a Start of a sender who is not authenticated has been handled:
\* it was turned away with the prompt, and nobody has a session.
C36_Witness ==
    /\ last.kind = "close" /\ last.pc = "denied"
    /\ "auth_prompt" \in last.msgs
    /\ last.uid \notin AUTH_USERS
    /\ PENDING_CLOSE = EmptyDict

=============================================================================
